---------------------------- MODULE Spec2Model ----------------------------
(***************************************************************************)
(* Property-verification backend (src/main.py, src/schemas.py).            *)
(*                                                                         *)
(* The state is the document store (collections appuser, verificationtask, *)
(* taskresult) and, for every request being handled, the handler's local   *)
(* variables and its position.  Every store operation of a handler is one  *)
(* atomic step; the steps of concurrently handled requests interleave.     *)
(*                                                                         *)
(* Encoding.  A document is a function from field names to values; a field *)
(* a document does not have is absent from its DOMAIN.  Datetimes are      *)
(* positive ticks and a None datetime is NoneTime.  An ObjectId is a       *)
(* number and its str() form is a sequence of OidWidth hexadecimal digits  *)
(* (24 in BSON).  Strings that the code takes apart (ids, emails) are      *)
(* sequences.                                                              *)
(***************************************************************************)
EXTENDS Integers, Sequences, FiniteSets, TLC

VARIABLES
    appuser,            \* collection "appuser", in natural (insertion) order
    verificationtask,   \* collection "verificationtask"
    taskresult,         \* collection "taskresult"
    clock,              \* latest value datetime.now() has returned
    pc,                 \* per worker: position in the handler it runs
    req,                \* per worker: the request (payload) it handles
    loc,                \* per worker: the handler's local variables
    resp,               \* per worker: the HTTP response, once produced
    pre,                \* per worker: the store as it was when the request arrived (SeqSpec)
    calls,              \* number of requests received so far
    hist                \* the assignments and submissions that succeeded, in order (SeqSpec)

vars == <<appuser, verificationtask, taskresult, clock, pc, req, loc, resp, pre, calls, hist>>
store == <<appuser, verificationtask, taskresult>>

-----------------------------------------------------------------------------
(* Bounds of the model *)

MaxCalls == 3           \* requests received in one behaviour, handled one at a time
MaxParallelCalls == 2   \* requests received in one behaviour, handled concurrently
MaxClock == 5           \* largest tick datetime.now() returns

\* Two requests are handled concurrently.
Workers == {1, 2}

-----------------------------------------------------------------------------
(* Values *)

NoneTime == 0           \* Optional[datetime] = None
OidWidth == 2           \* hexadecimal digits of str(ObjectId)
FirstOid == 10          \* the first ObjectId the store hands out
DefaultReward == 30     \* task.get("reward_cents", 30)

LowerHex == <<"0","1","2","3","4","5","6","7","8","9","a","b","c","d","e","f">>
UpperHex == <<"0","1","2","3","4","5","6","7","8","9","A","B","C","D","E","F">>

\* str(ObjectId): lowercase hexadecimal, fixed width
RECURSIVE ToHex(_, _)
ToHex(n, width) ==
    IF width = 0 THEN <<>>
    ELSE Append(ToHex(n \div 16, width - 1), LowerHex[(n % 16) + 1])

OidStr(n) == ToHex(n, OidWidth)

HexVal(ch) == CHOOSE v \in 0..15 : LowerHex[v + 1] = ch \/ UpperHex[v + 1] = ch
IsHex(ch) == \E v \in 0..15 : LowerHex[v + 1] = ch \/ UpperHex[v + 1] = ch

\* fault: the length of the string is not checked
ObjectIdValidAnyLength(s) == \A i \in 1..Len(s) : IsHex(s[i])

\* ObjectId(s) raises unless s is OidWidth hexadecimal digits of either case
ObjectIdValid(s) == Len(s) = OidWidth /\ \A i \in 1..Len(s) : IsHex(s[i])
RECURSIVE FromHex(_)
FromHex(s) ==
    IF s = <<>> THEN 0
    ELSE FromHex(SubSeq(s, 1, Len(s) - 1)) * 16 + HexVal(s[Len(s)])

ObjectId(s) == FromHex(s)

\* dict.get(field, default)
Get(doc, field, default) == IF field \in DOMAIN doc THEN doc[field] ELSE default

\* {"$set": {field: value}} applied to one document
SetField(doc, field, value) ==
    [f \in DOMAIN doc \cup {field} |-> IF f = field THEN value ELSE doc[f]]

\* {"$inc": {field: amount}} applied to one document: a missing field counts as 0
IncField(doc, field, amount) == SetField(doc, field, Get(doc, field, 0) + amount)

\* the ObjectId insert_one gives the next document: unique over the store
NewOid == FirstOid + Len(appuser) + Len(verificationtask) + Len(taskresult)

ToSet(seq) == {seq[i] : i \in 1..Len(seq)}

-----------------------------------------------------------------------------
(* Schemas (src/schemas.py) *)

NoneStr == <<>>         \* Optional[str] = None

Choices == {"active", "inactive", "unknown"}

\* fault: a new user starts with a balance
AppUserWithBonus(name, email) ==
    [name |-> name, email |-> email, wallet_balance_cents |-> DefaultReward]

\* AppUser(name=..., email=...): wallet_balance_cents defaults to 0
AppUser(name, email) == [name |-> name, email |-> email, wallet_balance_cents |-> 0]

\* VerificationTask(**s) for a sample s of seed_data: the other fields take their defaults
VerificationTask(title, reward_cents) ==
    [title |-> title, reward_cents |-> reward_cents, status |-> "pending",
     assigned_to |-> NoneStr, last_assigned_at |-> NoneTime]

\* fault: choice: str, any choice is accepted
TaskResultAcceptsAll(choice) == choice = choice

\* TaskResult(...) raises a ValidationError unless choice is one of the Literal's values
TaskResultValid(choice) == choice \in Choices

TaskResult(task_id, user_id, choice, reward_cents, submitted_at) ==
    [task_id |-> task_id, user_id |-> user_id, choice |-> choice,
     reward_cents |-> reward_cents, submitted_at |-> submitted_at]

-----------------------------------------------------------------------------
(* The document store (module database and the driver behind db) *)

\* create_document(collection, model): insert_one of the model's fields under a new _id
create_document(coll, doc) == Append(coll, SetField(doc, "_id", NewOid))

\* get_documents("appuser", {"email": email}): the matching documents, in natural order
get_documents_by_email(coll, email) == SelectSeq(coll, LAMBDA d : d["email"] = email)

\* find_one({"_id": oid}): the set of documents it may return (empty: it returns None)
find_one_by_id(coll, oid) == {d \in ToSet(coll) : d["_id"] = oid}

\* BSON order of the sort key: a null or missing value orders before every datetime
SortKey(doc) == Get(doc, "last_assigned_at", NoneTime)

\* fault: a null or missing value orders after every datetime
SortsNullsLast(a, b) ==
    \/ SortKey(b) = NoneTime
    \/ SortKey(a) # NoneTime /\ SortKey(a) <= SortKey(b)

\* fault: sort=[("last_assigned_at", -1)], the most recently assigned first
SortsDescending(a, b) ==
    \/ SortKey(b) = NoneTime
    \/ SortKey(a) # NoneTime /\ SortKey(a) >= SortKey(b)

SortsBeforeOrEqual(a, b) ==
    \/ SortKey(a) = NoneTime
    \/ SortKey(b) # NoneTime /\ SortKey(a) <= SortKey(b)

\* fault: the query {"status": {"$ne": "completed"}}
IsNotCompleted(doc) == Get(doc, "status", "") # "completed"

\* the query {"status": "pending"}
IsPending(doc) == Get(doc, "status", "") = "pending"

\* find_one({"status": "pending"}, sort=[("last_assigned_at", 1)]): the documents it
\* may return; the order among equal keys is the driver's choice
find_one_pending(coll) ==
    {d \in ToSet(coll) : IsPending(d) /\
        \A e \in ToSet(coll) : IsPending(e) => SortsBeforeOrEqual(d, e)}

\* update_one({"_id": oid}, {"$set": {field: value}})
update_one_set(coll, oid, field, value) ==
    [i \in 1..Len(coll) |->
        IF coll[i]["_id"] = oid THEN SetField(coll[i], field, value) ELSE coll[i]]

\* update_one({"_id": oid}, {"$inc": {field: amount}})
update_one_inc(coll, oid, field, amount) ==
    [i \in 1..Len(coll) |->
        IF coll[i]["_id"] = oid THEN IncField(coll[i], field, amount) ELSE coll[i]]

-----------------------------------------------------------------------------
(* Helpers of src/main.py *)

\* _doc_to_dict: "_id" is replaced by "id", its string form
_doc_to_dict(doc) ==
    IF "_id" \in DOMAIN doc
    THEN [f \in (DOMAIN doc \ {"_id"}) \cup {"id"} |->
             IF f = "id" THEN OidStr(doc["_id"]) ELSE doc[f]]
    ELSE doc

\* payload.user_email.split("@")[0]; an email is <<local part, domain>>
NameOf(email) == email[1]

\* fault: task.get("reward_cents", 0): no default reward
RewardOfNoDefault(task) == Get(task, "reward_cents", 0)

\* int(task.get("reward_cents", 30))
RewardOf(task) == Get(task, "reward_cents", DefaultReward)

\* the samples of seed_data
Samples == <<VerificationTask("Modern Studio Apartment", 30),
             VerificationTask("Cozy Suburban Home", 30),
             VerificationTask("Downtown Loft", 30)>>

DemoEmail == <<"demo", "example.com">>

\* HTTP status codes
Ok == 200
BadRequest == 400
NotFound == 404
ServerError == 500

-----------------------------------------------------------------------------
(* Requests and initial stores *)

EmailA == <<"a", "x.com">>
EmailB == <<"b", "x.com">>
Emails == {EmailA, EmailB}

\* str.upper() of a hexadecimal string
ToUpper(s) == [i \in DOMAIN s |-> UpperHex[HexVal(s[i]) + 1]]

\* task ids a client sends: an id the store hands out, in lower case, the next one in
\* upper case, an id no document gets, and two malformed strings: one that is not
\* hexadecimal and one that is too short
TaskIds == {OidStr(FirstOid + 3), ToUpper(OidStr(FirstOid + 4)),
            [i \in 1..OidWidth |-> "f"], [i \in 1..OidWidth |-> "z"], <<"e">>}

InputChoices == Choices \cup {"maybe"}

Requests ==
    [op : {"assign"}, user_email : Emails]
        \cup [op : {"submit"}, user_email : Emails, task_id : TaskIds, choice : InputChoices]
        \cup [op : {"wallet"}, email : Emails]
        \cup [op : {"seed"}]

\* the requests of the interleaved runs: submissions name an existing task in either
\* case or a malformed id, with one valid or one invalid choice
ParallelRequests ==
    {r \in Requests :
        r.op = "submit" =>
            /\ r.task_id \in {OidStr(FirstOid + 3), ToUpper(OidStr(FirstOid + 4)),
                              [i \in 1..OidWidth |-> "z"]}
            /\ r.choice \in {"active", "maybe"}}

NoReq == [op |-> "none"]
NoDoc == [none |-> TRUE]
NoResp == [status |-> 0]
NoLoc == [user |-> NoDoc, task |-> NoDoc, user_id |-> NoneStr, oid |-> 0, i |-> 0]
\* no store was recorded
NoPre == [appuser |-> <<>>, verificationtask |-> <<>>, taskresult |-> <<>>, calls |-> -1]

\* a store that was never seeded
EmptyStore == [appuser |-> <<>>, verificationtask |-> <<>>, taskresult |-> <<>>]

\* a store in use: a user, tasks assigned earlier, a task inserted without its optional
\* fields, a disabled task
UsedStore ==
    [appuser |-> <<SetField(AppUser("a", EmailA), "_id", FirstOid)>>,
     verificationtask |->
        <<[VerificationTask("t1", 50) EXCEPT !.last_assigned_at = 2,
               !.assigned_to = OidStr(FirstOid)] @@ ("_id" :> FirstOid + 1),
          [VerificationTask("t2", 20) EXCEPT !.last_assigned_at = 1,
               !.assigned_to = OidStr(FirstOid)] @@ ("_id" :> FirstOid + 2),
          [title |-> "t3", status |-> "pending"] @@ ("_id" :> FirstOid + 3),
          [VerificationTask("t4", 30) EXCEPT !.status = "disabled"] @@ ("_id" :> FirstOid + 4)>>,
     taskresult |-> <<>>]

\* a store whose tasks are all done: one completed by the user, one disabled
DoneStore ==
    [appuser |-> <<[AppUser("a", EmailA) EXCEPT !.wallet_balance_cents = 20]
                       @@ ("_id" :> FirstOid)>>,
     verificationtask |->
        <<[VerificationTask("t1", 20) EXCEPT !.last_assigned_at = 1, !.status = "completed",
               !.assigned_to = OidStr(FirstOid)] @@ ("_id" :> FirstOid + 1),
          [VerificationTask("t2", 30) EXCEPT !.status = "disabled"] @@ ("_id" :> FirstOid + 2)>>,
     taskresult |->
        <<TaskResult(OidStr(FirstOid + 1), OidStr(FirstOid), "active", 20, 2)
              @@ ("_id" :> FirstOid + 3)>>]

\* a store with two users, one inserted without wallet_balance_cents, a completed task
\* and a pending one
LegacyStore ==
    [appuser |-> <<[name |-> "b", email |-> EmailB] @@ ("_id" :> FirstOid),
                   SetField(AppUser("a", EmailA), "_id", FirstOid + 1)>>,
     verificationtask |->
        <<[VerificationTask("t1", 30) EXCEPT !.status = "completed"] @@ ("_id" :> FirstOid + 2),
          VerificationTask("t2", 20) @@ ("_id" :> FirstOid + 3)>>,
     taskresult |-> <<>>]

InitStores == {EmptyStore, UsedStore, DoneStore, LegacyStore}

Init ==
    /\ \E s \in InitStores :
          /\ appuser = s.appuser
          /\ verificationtask = s.verificationtask
          /\ taskresult = s.taskresult
    /\ clock = 2
    /\ pc = [p \in Workers |-> "idle"]
    /\ req = [p \in Workers |-> NoReq]
    /\ loc = [p \in Workers |-> NoLoc]
    /\ resp = [p \in Workers |-> NoResp]
    /\ pre = [p \in Workers |-> NoPre]
    /\ calls = 0
    /\ hist = <<>>

\* datetime.now(timezone.utc): not before any value returned earlier
Now == {t \in {clock, clock + 1} : t <= MaxClock}

-----------------------------------------------------------------------------
(* Steps *)

Goto(p, label) == pc' = [pc EXCEPT ![p] = label]

\* raise HTTPException(status_code=...) or an unhandled exception: the handler ends
Raise(p, status) ==
    /\ resp' = [resp EXCEPT ![p] = [status |-> status]]
    /\ Goto(p, "done")

FirstLabel(op) ==
    CASE op = "assign" -> "assign_get_users"
      [] op = "submit" -> "submit_get_users"
      [] op = "wallet" -> "get_wallet"
      [] op = "seed" -> "seed_get_users"

\* a request arrives and the first free worker starts its handler
Arrive(p) ==
    /\ pc[p] = "idle"
    /\ \A q \in Workers : q < p => pc[q] # "idle"
    /\ \E r \in Requests :
          /\ req' = [req EXCEPT ![p] = r]
          /\ Goto(p, FirstLabel(r.op))
    /\ calls' = calls + 1
    /\ UNCHANGED <<store, clock, loc, resp, hist>>

\* the store and the number of requests received, as a handler finds them
Snapshot ==
    [appuser |-> appuser, verificationtask |-> verificationtask,
     taskresult |-> taskresult, calls |-> calls]

\* ... while other requests may be in progress; pre records the store the handler starts
\* from when no other handler is in progress
Call(p) ==
    /\ calls < MaxParallelCalls
    /\ Arrive(p)
    /\ req'[p] \in ParallelRequests
    /\ pre' = [pre EXCEPT ![p] = IF \A q \in Workers \ {p} : pc[q] = "idle"
                                   THEN Snapshot ELSE NoPre]

\* ... when requests are handled one at a time; pre records the store the handler starts from
SeqCall(p) ==
    /\ \A q \in Workers \ {p} : pc[q] = "idle"
    /\ calls < MaxCalls
    /\ Arrive(p)
    /\ pre' = [pre EXCEPT ![p] = Snapshot]

\* the response has been sent; the worker is free again; hist records a successful
\* assignment or submission: the request, the response, the store the handler started
\* from when no other was in progress, and the time
Return(p) ==
    /\ pc[p] = "done"
    /\ Goto(p, "idle")
    /\ req' = [req EXCEPT ![p] = NoReq]
    /\ loc' = [loc EXCEPT ![p] = NoLoc]
    /\ resp' = [resp EXCEPT ![p] = NoResp]
    /\ pre' = [pre EXCEPT ![p] = NoPre]
    /\ hist' = IF resp[p].status = Ok /\ req[p].op \in {"assign", "submit"}
               THEN Append(hist, [req |-> req[p], resp |-> resp[p],
                                  pre |-> pre[p], at |-> clock])
               ELSE hist
    /\ UNCHANGED <<store, clock, calls>>

----------------------------------------------------------------------------
(* assign_task *)

\* users = get_documents("appuser", {"email": payload.user_email})
AssignGetUsers(p) ==
    /\ pc[p] = "assign_get_users"
    /\ LET users == get_documents_by_email(appuser, req[p].user_email) IN
          IF users # <<>>
          THEN /\ loc' = [loc EXCEPT ![p].user = users[1]]
               /\ Goto(p, "assign_find_task")
          ELSE /\ Goto(p, "assign_create_user")
               /\ UNCHANGED loc
    /\ UNCHANGED <<store, clock, req, resp, pre, calls, hist>>

\* user_id = create_document("appuser", AppUser(name=..., email=...))
AssignCreateUser(p) ==
    /\ pc[p] = "assign_create_user"
    /\ appuser' = create_document(appuser, AppUser(NameOf(req[p].user_email), req[p].user_email))
    /\ loc' = [loc EXCEPT ![p].user_id = OidStr(NewOid)]
    /\ Goto(p, "assign_find_user")
    /\ UNCHANGED <<verificationtask, taskresult, clock, req, resp, pre, calls, hist>>

\* user = db["appuser"].find_one({"_id": ObjectId(user_id)})
AssignFindUser(p) ==
    /\ pc[p] = "assign_find_user"
    /\ \E u \in find_one_by_id(appuser, ObjectId(loc[p].user_id)) :
          loc' = [loc EXCEPT ![p].user = u]
    /\ Goto(p, "assign_find_task")
    /\ UNCHANGED <<store, clock, req, resp, pre, calls, hist>>

\* task = db["verificationtask"].find_one({"status": "pending"}, sort=[...])
AssignFindTask(p) ==
    /\ pc[p] = "assign_find_task"
    /\ IF find_one_pending(verificationtask) = {}
       THEN /\ Raise(p, NotFound)
            /\ UNCHANGED loc
       ELSE /\ \E t \in find_one_pending(verificationtask) :
                  loc' = [loc EXCEPT ![p].task = t]
            /\ Goto(p, "assign_update")
            /\ UNCHANGED resp
    /\ UNCHANGED <<store, clock, req, pre, calls, hist>>

\* fault: the assignment is written only if the task is still as it was read
AssignUpdateIfUnclaimed(p) ==
    /\ pc[p] = "assign_update"
    /\ \E now \in Now :
          /\ verificationtask' =
                IF loc[p].task \in ToSet(verificationtask)
                THEN update_one_set(
                         update_one_set(verificationtask, loc[p].task["_id"],
                                        "assigned_to", OidStr(loc[p].user["_id"])),
                         loc[p].task["_id"], "last_assigned_at", now)
                ELSE verificationtask
          /\ clock' = now
    /\ Goto(p, "assign_reread")
    /\ UNCHANGED <<appuser, taskresult, req, loc, resp, pre, calls, hist>>

\* fault: the assignment also marks the task's status
AssignUpdateMarksStatus(p) ==
    /\ pc[p] = "assign_update"
    /\ \E now \in Now :
          /\ verificationtask' =
                update_one_set(
                    update_one_set(update_one_set(verificationtask, loc[p].task["_id"],
                                                  "status", "assigned"), loc[p].task["_id"],
                                   "assigned_to", OidStr(loc[p].user["_id"])),
                    loc[p].task["_id"], "last_assigned_at", now)
          /\ clock' = now
    /\ Goto(p, "assign_reread")
    /\ UNCHANGED <<appuser, taskresult, req, loc, resp, pre, calls, hist>>

\* fault: the assignment also sets the task's status back to pending
AssignUpdateReopens(p) ==
    /\ pc[p] = "assign_update"
    /\ \E now \in Now :
          /\ verificationtask' =
                update_one_set(
                    update_one_set(update_one_set(verificationtask, loc[p].task["_id"],
                                                  "status", "pending"), loc[p].task["_id"],
                                   "assigned_to", OidStr(loc[p].user["_id"])),
                    loc[p].task["_id"], "last_assigned_at", now)
          /\ clock' = now
    /\ Goto(p, "assign_reread")
    /\ UNCHANGED <<appuser, taskresult, req, loc, resp, pre, calls, hist>>

\* update_one({"_id": task["_id"]}, {"$set": {"assigned_to": ..., "last_assigned_at": now}})
AssignUpdate(p) ==
    /\ pc[p] = "assign_update"
    /\ \E now \in Now :
          /\ verificationtask' =
                update_one_set(
                    update_one_set(verificationtask, loc[p].task["_id"],
                                   "assigned_to", OidStr(loc[p].user["_id"])),
                    loc[p].task["_id"], "last_assigned_at", now)
          /\ clock' = now
    /\ Goto(p, "assign_reread")
    /\ UNCHANGED <<appuser, taskresult, req, loc, resp, pre, calls, hist>>

\* task = find_one({"_id": task["_id"]}); return AssignResponse(...)
AssignReread(p) ==
    /\ pc[p] = "assign_reread"
    /\ \E t \in find_one_by_id(verificationtask, loc[p].task["_id"]) :
          LET task_d == _doc_to_dict(t) IN
          /\ loc' = [loc EXCEPT ![p].task = t]
          /\ resp' = [resp EXCEPT ![p] =
                 [status |-> Ok, task_id |-> task_d["id"], title |-> task_d["title"],
                  reward_cents |-> RewardOf(task_d)]]
    /\ Goto(p, "done")
    /\ UNCHANGED <<store, clock, req, pre, calls, hist>>

----------------------------------------------------------------------------
(* submit_task *)

\* fault: the task id is parsed before the user is looked up
SubmitParseFirst(p) ==
    /\ pc[p] = "submit_get_users"
    /\ LET users == get_documents_by_email(appuser, req[p].user_email) IN
          IF ~ObjectIdValid(req[p].task_id)
          THEN /\ Raise(p, BadRequest)
               /\ UNCHANGED loc
          ELSE IF users = <<>>
          THEN /\ Raise(p, NotFound)
               /\ UNCHANGED loc
          ELSE /\ loc' = [loc EXCEPT ![p].user = users[1],
                                     ![p].oid = ObjectId(req[p].task_id)]
               /\ Goto(p, "submit_find_task")
               /\ UNCHANGED resp
    /\ UNCHANGED <<store, clock, req, pre, calls, hist>>

\* users = get_documents(...); 404 if none; oid = ObjectId(payload.task_id); 400 if it raises
SubmitGetUsers(p) ==
    /\ pc[p] = "submit_get_users"
    /\ LET users == get_documents_by_email(appuser, req[p].user_email) IN
          IF users = <<>>
          THEN /\ Raise(p, NotFound)
               /\ UNCHANGED loc
          ELSE IF ~ObjectIdValid(req[p].task_id)
          THEN /\ Raise(p, BadRequest)
               /\ loc' = [loc EXCEPT ![p].user = users[1]]
          ELSE /\ loc' = [loc EXCEPT ![p].user = users[1],
                                     ![p].oid = ObjectId(req[p].task_id)]
               /\ Goto(p, "submit_find_task")
               /\ UNCHANGED resp
    /\ UNCHANGED <<store, clock, req, pre, calls, hist>>

\* fault: a task that is already completed is not found
SubmitFindTaskOnce(p) ==
    /\ pc[p] = "submit_find_task"
    /\ LET found == {t \in find_one_by_id(verificationtask, loc[p].oid) :
                        t["status"] # "completed"} IN
       IF found = {}
       THEN /\ Raise(p, NotFound)
            /\ UNCHANGED loc
       ELSE /\ \E t \in found : loc' = [loc EXCEPT ![p].task = t]
            /\ Goto(p, "submit_create_result")
            /\ UNCHANGED resp
    /\ UNCHANGED <<store, clock, req, pre, calls, hist>>

\* task = db["verificationtask"].find_one({"_id": oid}); 404 if none
SubmitFindTask(p) ==
    /\ pc[p] = "submit_find_task"
    /\ IF find_one_by_id(verificationtask, loc[p].oid) = {}
       THEN /\ Raise(p, NotFound)
            /\ UNCHANGED loc
       ELSE /\ \E t \in find_one_by_id(verificationtask, loc[p].oid) :
                  loc' = [loc EXCEPT ![p].task = t]
            /\ Goto(p, "submit_create_result")
            /\ UNCHANGED resp
    /\ UNCHANGED <<store, clock, req, pre, calls, hist>>

\* create_document("taskresult", TaskResult(...)): the TaskResult is built first, and
\* its ValidationError is not handled
SubmitCreateResult(p) ==
    /\ pc[p] = "submit_create_result"
    /\ IF ~TaskResultValid(req[p].choice)
       THEN /\ Raise(p, ServerError)
            /\ UNCHANGED <<taskresult, clock>>
       ELSE /\ taskresult' = create_document(taskresult,
                  TaskResult(OidStr(loc[p].task["_id"]), OidStr(loc[p].user["_id"]),
                             req[p].choice, RewardOf(loc[p].task), clock))
            /\ Goto(p, "submit_update_task")
            /\ UNCHANGED <<resp, clock>>
    /\ UNCHANGED <<appuser, verificationtask, req, loc, pre, calls, hist>>

\* update_one({"_id": task["_id"]}, {"$set": {"status": "completed"}})
SubmitUpdateTask(p) ==
    /\ pc[p] = "submit_update_task"
    /\ verificationtask' =
          update_one_set(verificationtask, loc[p].task["_id"], "status", "completed")
    /\ Goto(p, "submit_credit")
    /\ UNCHANGED <<appuser, taskresult, clock, req, loc, resp, pre, calls, hist>>

\* fault: the new balance is computed from the user document read at the start
SubmitCreditFromRead(p) ==
    /\ pc[p] = "submit_credit"
    /\ appuser' = update_one_set(appuser, loc[p].user["_id"], "wallet_balance_cents",
                                 Get(loc[p].user, "wallet_balance_cents", 0)
                                     + RewardOf(loc[p].task))
    /\ resp' = [resp EXCEPT ![p] = [status |-> Ok, reward_cents |-> RewardOf(loc[p].task)]]
    /\ Goto(p, "done")
    /\ UNCHANGED <<verificationtask, taskresult, clock, req, loc, pre, calls, hist>>

\* update_one({"_id": user["_id"]}, {"$inc": {"wallet_balance_cents": reward_cents}}); return
SubmitCredit(p) ==
    /\ pc[p] = "submit_credit"
    /\ appuser' = update_one_inc(appuser, loc[p].user["_id"], "wallet_balance_cents",
                                 RewardOf(loc[p].task))
    /\ resp' = [resp EXCEPT ![p] = [status |-> Ok, reward_cents |-> RewardOf(loc[p].task)]]
    /\ Goto(p, "done")
    /\ UNCHANGED <<verificationtask, taskresult, clock, req, loc, pre, calls, hist>>

----------------------------------------------------------------------------
(* get_wallet *)

\* fault: an unknown user has an empty wallet
GetWalletUnknownIsZero(p) ==
    /\ pc[p] = "get_wallet"
    /\ LET users == get_documents_by_email(appuser, req[p].email) IN
          /\ resp' = [resp EXCEPT ![p] =
                 [status |-> Ok,
                  wallet_balance_cents |->
                      IF users = <<>> THEN 0 ELSE Get(users[1], "wallet_balance_cents", 0)]]
          /\ Goto(p, "done")
    /\ UNCHANGED <<store, clock, req, loc, pre, calls, hist>>

\* users = get_documents(...); 404 if none; return the first user's wallet_balance_cents
GetWallet(p) ==
    /\ pc[p] = "get_wallet"
    /\ LET users == get_documents_by_email(appuser, req[p].email) IN
          IF users = <<>>
          THEN /\ Raise(p, NotFound)
               /\ UNCHANGED loc
          ELSE /\ loc' = [loc EXCEPT ![p].user = users[1]]
               /\ resp' = [resp EXCEPT ![p] =
                      [status |-> Ok,
                       wallet_balance_cents |-> Get(users[1], "wallet_balance_cents", 0)]]
               /\ Goto(p, "done")
    /\ UNCHANGED <<store, clock, req, pre, calls, hist>>

----------------------------------------------------------------------------
(* seed_data *)

\* users = get_documents("appuser", {})
SeedGetUsers(p) ==
    /\ pc[p] = "seed_get_users"
    /\ IF appuser = <<>>
       THEN Goto(p, "seed_create_user")
       ELSE Goto(p, "seed_get_tasks")
    /\ UNCHANGED <<store, clock, req, loc, resp, pre, calls, hist>>

\* create_document("appuser", AppUser(name="Demo User", email="demo@example.com", ...))
SeedCreateUser(p) ==
    /\ pc[p] = "seed_create_user"
    /\ appuser' = create_document(appuser, AppUser("Demo User", DemoEmail))
    /\ Goto(p, "seed_get_tasks")
    /\ UNCHANGED <<verificationtask, taskresult, clock, req, loc, resp, pre, calls, hist>>

\* fault: the samples are inserted whether or not the collection is empty
SeedGetTasksAlways(p) ==
    /\ pc[p] = "seed_get_tasks"
    /\ loc' = [loc EXCEPT ![p].i = 1]
    /\ Goto(p, "seed_create_task")
    /\ UNCHANGED <<store, clock, req, resp, pre, calls, hist>>

\* tasks = get_documents("verificationtask", {})
SeedGetTasks(p) ==
    /\ pc[p] = "seed_get_tasks"
    /\ IF verificationtask = <<>>
       THEN /\ loc' = [loc EXCEPT ![p].i = 1]
            /\ Goto(p, "seed_create_task")
            /\ UNCHANGED resp
       ELSE /\ resp' = [resp EXCEPT ![p] = [status |-> Ok]]
            /\ Goto(p, "done")
            /\ UNCHANGED loc
    /\ UNCHANGED <<store, clock, req, pre, calls, hist>>

\* for s in samples: create_document("verificationtask", VerificationTask(**s))
SeedCreateTask(p) ==
    /\ pc[p] = "seed_create_task"
    /\ verificationtask' = create_document(verificationtask, Samples[loc[p].i])
    /\ IF loc[p].i < Len(Samples)
       THEN /\ loc' = [loc EXCEPT ![p].i = loc[p].i + 1]
            /\ UNCHANGED <<pc, resp>>
       ELSE /\ resp' = [resp EXCEPT ![p] = [status |-> Ok]]
            /\ Goto(p, "done")
            /\ UNCHANGED loc
    /\ UNCHANGED <<appuser, taskresult, clock, req, pre, calls, hist>>

----------------------------------------------------------------------------

\* the steps of the handlers
Handle(p) ==
        \/ AssignGetUsers(p)
        \/ AssignCreateUser(p)
        \/ AssignFindUser(p)
        \/ AssignFindTask(p)
        \/ AssignUpdate(p)
        \/ AssignReread(p)
        \/ SubmitGetUsers(p)
        \/ SubmitFindTask(p)
        \/ SubmitCreateResult(p)
        \/ SubmitUpdateTask(p)
        \/ SubmitCredit(p)
        \/ GetWallet(p)
        \/ SeedGetUsers(p)
        \/ SeedCreateUser(p)
        \/ SeedGetTasks(p)
        \/ SeedCreateTask(p)

\* requests are handled concurrently: the steps of the workers interleave
Next == \E p \in Workers : Call(p) \/ Return(p) \/ Handle(p)

Spec == Init /\ [][Next]_vars

\* requests are handled one at a time: a handler runs to its end without interleaving
SeqNext == \E p \in Workers : SeqCall(p) \/ Return(p) \/ Handle(p)

SeqSpec == Init /\ [][SeqNext]_vars

-----------------------------------------------------------------------------
(* Properties.  In SeqSpec a worker at "done" has run its handler without          *)
(* interleaving from the store pre[p] to the present store.                        *)

Finished(p, op) == pc[p] = "done" /\ req[p].op = op

KnownIn(users, email) == \E i \in 1..Len(users) : users[i]["email"] = email

\* the position of the first user with that email
FirstUserIndex(users, email) ==
    CHOOSE i \in 1..Len(users) :
        /\ users[i]["email"] = email
        /\ \A j \in 1..(i - 1) : users[j]["email"] # email

\* two hexadecimal strings that denote the same id
SameHex(s, u) ==
    /\ Len(s) = Len(u)
    /\ \A i \in 1..Len(s) : IsHex(s[i]) /\ HexVal(s[i]) = HexVal(u[i])

WellFormed(s) == Len(s) = OidWidth /\ \A i \in 1..Len(s) : IsHex(s[i])

\* the positions of the tasks a task id names
TaskNamed(tasks, s) == {i \in 1..Len(tasks) : SameHex(s, OidStr(tasks[i]["_id"]))}

ExpectedReward(t) == IF "reward_cents" \in DOMAIN t THEN t["reward_cents"] ELSE 30

ValidSubmit(p) ==
    /\ Finished(p, "submit")
    /\ KnownIn(pre[p].appuser, req[p].user_email)
    /\ TaskNamed(pre[p].verificationtask, req[p].task_id) # {}
    /\ req[p].choice \in {"active", "inactive", "unknown"}

\* C1: a submit_task that runs without interleaving for a known user, an existing task
\* and a valid choice succeeds whatever the task's status and assignee; it appends
\* exactly one TaskResult (task id, user id, choice, the task's reward_cents or 30), sets
\* the task's status to completed and adds the reward to that user's wallet; no other
\* task and no other user changes.
C1_SubmitContract ==
    \A p \in Workers : ValidSubmit(p) =>
        LET ui == FirstUserIndex(pre[p].appuser, req[p].user_email)
            ti == CHOOSE i \in TaskNamed(pre[p].verificationtask, req[p].task_id) : TRUE
            u == pre[p].appuser[ui]
            t == pre[p].verificationtask[ti]
            r == ExpectedReward(t)
            n == Len(pre[p].taskresult)
        IN  /\ resp[p].status = 200
            /\ resp[p].reward_cents = r
            /\ Len(taskresult) = n + 1
            /\ SubSeq(taskresult, 1, n) = pre[p].taskresult
            /\ taskresult[n + 1].task_id = OidStr(t["_id"])
            /\ taskresult[n + 1].user_id = OidStr(u["_id"])
            /\ taskresult[n + 1].choice = req[p].choice
            /\ taskresult[n + 1].reward_cents = r
            /\ Len(verificationtask) = Len(pre[p].verificationtask)
            /\ \A i \in 1..Len(verificationtask) :
                  verificationtask[i] =
                      IF i = ti THEN SetField(t, "status", "completed")
                      ELSE pre[p].verificationtask[i]
            /\ Len(appuser) = Len(pre[p].appuser)
            /\ \A i \in 1..Len(appuser) :
                  appuser[i] =
                      IF i = ui
                      THEN SetField(u, "wallet_balance_cents",
                                    Get(u, "wallet_balance_cents", 0) + r)
                      ELSE pre[p].appuser[i]

\* a task that was already completed and has no reward_cents field has been submitted again
C1_Witness ==
    \E p \in Workers :
        /\ ValidSubmit(p)
        /\ resp[p].status = Ok
        /\ \E i \in TaskNamed(pre[p].verificationtask, req[p].task_id) :
              /\ pre[p].verificationtask[i]["status"] = "completed"
              /\ "reward_cents" \notin DOMAIN pre[p].verificationtask[i]

TaskById(oid) == CHOOSE t \in ToSet(verificationtask) : t["_id"] = oid

\* C2: under any interleaving of assign_task and submit_task, no step writes assigned_to
\* and last_assigned_at on a task whose status is completed at the moment of the write.
C2_CompletedNeverReassigned ==
    [][\A p \in Workers :
          (pc[p] = "assign_update" /\ pc'[p] = "assign_reread")
              => TaskById(loc[p].task["_id"])["status"] # "completed"]_vars

\* C3: a submit_task whose choice is not active, inactive or unknown mutates nothing,
\* whatever the user email and the task id: none of its steps changes a collection.
C3_InvalidChoiceNoMutation ==
    [][\A p \in Workers :
          (req[p].op = "submit" /\ req[p].choice \notin {"active", "inactive", "unknown"}
             /\ pc'[p] # pc[p])
              => store' = store]_vars

\* such a call passed the user and task checks and reached the construction of the TaskResult
C3_Witness ==
    \E p \in Workers :
        /\ Finished(p, "submit")
        /\ req[p].choice = "maybe"
        /\ loc[p].task # NoDoc
        /\ resp[p].status = ServerError

InvalidChoice(p) == req[p].choice \notin {"active", "inactive", "unknown"}

\* C4: a submit_task whose choice is not active, inactive or unknown ends with
\* ValidationFailure (422), whether or not the user is known and the task id well-formed.
C4_InvalidChoiceIs422 ==
    \A p \in Workers : (Finished(p, "submit") /\ InvalidChoice(p)) => resp[p].status = 422

StoreUnchanged(p) ==
    /\ appuser = pre[p].appuser
    /\ verificationtask = pre[p].verificationtask
    /\ taskresult = pre[p].taskresult

\* C5: submit_task for a known user with a syntactically invalid task id returns
\* InvalidArgument (400) and mutates no collection.
C5_MalformedIdIsBadRequest ==
    \A p \in Workers :
        (/\ Finished(p, "submit")
         /\ KnownIn(pre[p].appuser, req[p].user_email)
         /\ ~WellFormed(req[p].task_id))
            => resp[p].status = 400 /\ StoreUnchanged(p)

\* a known user has sent a hexadecimal id that is too short, and a valid choice
C5_Witness ==
    \E p \in Workers :
        /\ Finished(p, "submit")
        /\ KnownIn(pre[p].appuser, req[p].user_email)
        /\ req[p].task_id = <<"e">>
        /\ ~InvalidChoice(p)
        /\ resp[p].status = BadRequest

\* C6: submit_task checks in a fixed order: an unknown user gives NotFound even when the
\* task id is malformed or names no task; a known user with a malformed id gives
\* InvalidArgument; a known user with a well-formed id naming no task gives NotFound;
\* the NotFound cases mutate nothing.
C6_SubmitCheckOrder ==
    \A p \in Workers : Finished(p, "submit") =>
        LET known == KnownIn(pre[p].appuser, req[p].user_email)
            wellFormed == WellFormed(req[p].task_id)
            exists == TaskNamed(pre[p].verificationtask, req[p].task_id) # {}
        IN  /\ ~known => resp[p].status = 404 /\ StoreUnchanged(p)
            /\ (known /\ ~wellFormed) => resp[p].status = 400
            /\ (known /\ wellFormed /\ ~exists) => resp[p].status = 404 /\ StoreUnchanged(p)

\* an unknown user has sent a malformed task id and got NotFound
C6_Witness ==
    \E p \in Workers :
        /\ Finished(p, "submit")
        /\ pre[p].appuser # <<>>
        /\ ~KnownIn(pre[p].appuser, req[p].user_email)
        /\ ~WellFormed(req[p].task_id)
        /\ resp[p].status = NotFound

PendingIn(tasks) == {i \in 1..Len(tasks) : tasks[i]["status"] = "pending"}

\* the positions of the tasks of the store before the call that the response names
Returned(p) ==
    {i \in 1..Len(pre[p].verificationtask) :
        OidStr(pre[p].verificationtask[i]["_id"]) = resp[p].task_id}

\* C7: an assign_task that runs without interleaving while a task is pending succeeds;
\* the task it returns was pending before the call and the returned reward_cents is the
\* task's, or 30 when the task has none.
C7_AssignReturnsPending ==
    \A p \in Workers :
        (Finished(p, "assign") /\ PendingIn(pre[p].verificationtask) # {}) =>
            /\ resp[p].status = 200
            /\ Returned(p) # {}
            /\ \A i \in Returned(p) :
                  /\ pre[p].verificationtask[i]["status"] = "pending"
                  /\ resp[p].reward_cents = ExpectedReward(pre[p].verificationtask[i])

\* a task without reward_cents has been returned from a store that also holds a
\* never-assigned disabled task
C7_Witness ==
    \E p \in Workers :
        /\ Finished(p, "assign")
        /\ resp[p].status = Ok
        /\ \E i \in Returned(p) : "reward_cents" \notin DOMAIN pre[p].verificationtask[i]
        /\ \E i \in 1..Len(pre[p].verificationtask) :
              pre[p].verificationtask[i]["status"] = "disabled"

NeverAssigned(t) == "last_assigned_at" \notin DOMAIN t \/ t["last_assigned_at"] = NoneTime

\* t is assigned no later than e, a never-assigned task being earliest
NoLaterThan(t, e) ==
    \/ NeverAssigned(t)
    \/ ~NeverAssigned(e) /\ t["last_assigned_at"] <= e["last_assigned_at"]

\* C8: assign_task selects, among the pending tasks, one whose last_assigned_at is
\* minimal, a never-assigned task ordering before every task with a timestamp; it sets
\* that task's assigned_to to the caller's user id and its last_assigned_at to the
\* current time.
C8_AssignSelectsOldest ==
    \A p \in Workers :
        (Finished(p, "assign") /\ resp[p].status = 200) =>
            \A i \in Returned(p) :
                LET before == pre[p].verificationtask
                    caller == appuser[FirstUserIndex(appuser, req[p].user_email)]
                IN  /\ i \in PendingIn(before)
                    /\ \A j \in PendingIn(before) : NoLaterThan(before[i], before[j])
                    /\ verificationtask[i]["assigned_to"] = OidStr(caller["_id"])
                    /\ verificationtask[i]["last_assigned_at"] = clock

\* every pending task had a timestamp, and the one selected is not the first pending
\* task of the collection
C8_Witness ==
    \E p \in Workers :
        /\ Finished(p, "assign")
        /\ resp[p].status = Ok
        /\ \E i \in Returned(p) :
              /\ ~NeverAssigned(pre[p].verificationtask[i])
              /\ \E j \in PendingIn(pre[p].verificationtask) :
                    /\ j < i
                    /\ pre[p].verificationtask[j]["last_assigned_at"]
                          > pre[p].verificationtask[i]["last_assigned_at"]

\* C9: when no task is pending, assign_task returns NotFound (404) and changes no task.
C9_AssignNoPending ==
    \A p \in Workers :
        (Finished(p, "assign") /\ PendingIn(pre[p].verificationtask) = {}) =>
            /\ resp[p].status = 404
            /\ verificationtask = pre[p].verificationtask

\* the store holds tasks, none of them pending
C9_Witness ==
    \E p \in Workers :
        /\ Finished(p, "assign")
        /\ pre[p].verificationtask # <<>>
        /\ PendingIn(pre[p].verificationtask) = {}
        /\ resp[p].status = NotFound

\* C10: one assign_task that runs without interleaving for an email without AppUser
\* creates exactly one AppUser, with that email and wallet_balance_cents = 0, whether it
\* succeeds or fails with NotFound; for a known email it creates no user and leaves the
\* wallets unchanged.
C10_AssignCreatesUser ==
    \A p \in Workers : Finished(p, "assign") =>
        LET n == Len(pre[p].appuser) IN
        IF KnownIn(pre[p].appuser, req[p].user_email)
        THEN appuser = pre[p].appuser
        ELSE /\ Len(appuser) = n + 1
             /\ SubSeq(appuser, 1, n) = pre[p].appuser
             /\ appuser[n + 1]["email"] = req[p].user_email
             /\ appuser[n + 1]["wallet_balance_cents"] = 0

\* the user was created although no task was pending
C10_Witness ==
    \E p \in Workers :
        /\ Finished(p, "assign")
        /\ ~KnownIn(pre[p].appuser, req[p].user_email)
        /\ KnownIn(appuser, req[p].user_email)
        /\ resp[p].status = NotFound

\* C11: seed_data inserts the demo user only if appuser is empty and the three pending
\* samples only if verificationtask is empty, each decided on its own; on non-empty
\* collections (a second call, or after assignments and submissions) it inserts nothing;
\* it never changes an existing document.
C11_SeedIdempotent ==
    \A p \in Workers : Finished(p, "seed") =>
        /\ resp[p].status = 200
        /\ taskresult = pre[p].taskresult
        /\ IF pre[p].appuser = <<>>
           THEN /\ Len(appuser) = 1
                /\ appuser[1]["email"] = <<"demo", "example.com">>
                /\ appuser[1]["wallet_balance_cents"] = 0
           ELSE appuser = pre[p].appuser
        /\ IF pre[p].verificationtask = <<>>
           THEN /\ Len(verificationtask) = 3
                /\ \A i \in 1..3 :
                      /\ verificationtask[i]["status"] = "pending"
                      /\ verificationtask[i]["reward_cents"] = 30
                      /\ verificationtask[i]["title"] = Samples[i].title
           ELSE verificationtask = pre[p].verificationtask

\* seed_data has run again on a store it seeded, in which a user has since been created
\* and a sample task assigned
C11_Witness ==
    \E p \in Workers :
        /\ Finished(p, "seed")
        /\ Len(pre[p].appuser) = 2
        /\ pre[p].appuser[1]["email"] = DemoEmail
        /\ \E i \in 1..Len(pre[p].verificationtask) :
              /\ pre[p].verificationtask[i]["title"] = Samples[i].title
              /\ ~NeverAssigned(pre[p].verificationtask[i])

\* C12: get_wallet returns NotFound (404) for an email without AppUser, and for a known
\* user the stored wallet_balance_cents of the first user with that email, 0 if the field
\* is missing; it does not mutate the store.
C12_GetWallet ==
    \A p \in Workers : Finished(p, "wallet") =>
        /\ StoreUnchanged(p)
        /\ IF KnownIn(appuser, req[p].email)
           THEN LET u == appuser[FirstUserIndex(appuser, req[p].email)] IN
                /\ resp[p].status = 200
                /\ resp[p].wallet_balance_cents =
                      IF "wallet_balance_cents" \in DOMAIN u
                      THEN u["wallet_balance_cents"] ELSE 0
           ELSE resp[p].status = 404

\* the wallet of a user whose document has no wallet_balance_cents has been read
C12_Witness ==
    \E p \in Workers :
        /\ Finished(p, "wallet")
        /\ KnownIn(appuser, req[p].email)
        /\ "wallet_balance_cents" \notin
              DOMAIN appuser[FirstUserIndex(appuser, req[p].email)]
        /\ resp[p].status = Ok
        /\ resp[p].wallet_balance_cents = 0

\* the task of a collection that a returned task id names
TaskOf(tasks, s) == tasks[CHOOSE i \in 1..Len(tasks) : OidStr(tasks[i]["_id"]) = s]

\* the last two calls that succeeded were assign_task for a previously unknown email and
\* then submit_task by that email for the returned task with choice active
AssignedThenSubmitted(email) ==
    /\ Len(hist) >= 2
    /\ LET a == hist[Len(hist) - 1]
           s == hist[Len(hist)]
       IN  /\ a.req.op = "assign"
           /\ a.req.user_email = email
           /\ ~KnownIn(a.pre.appuser, email)
           /\ PendingIn(a.pre.verificationtask) # {}
           /\ s.req.op = "submit"
           /\ s.req.user_email = email
           /\ s.req.task_id = a.resp.task_id
           /\ s.req.choice = "active"

\* C13: run without interleaving, assign_task for a previously unknown email on a store
\* with a pending task, followed by submit_task for the returned task_id with choice
\* active, leaves get_wallet for that email returning exactly the assigned task's
\* reward_cents (30 when the task has none); calls in between that fail or only read
\* do not change this.
C13_AssignSubmitWallet ==
    \A p \in Workers :
        (Finished(p, "wallet") /\ AssignedThenSubmitted(req[p].email)) =>
            LET a == hist[Len(hist) - 1] IN
            /\ resp[p].status = 200
            /\ resp[p].wallet_balance_cents = a.resp.reward_cents
            /\ resp[p].wallet_balance_cents =
                  ExpectedReward(TaskOf(a.pre.verificationtask, a.resp.task_id))

\* the scenario has run on a task that has no reward_cents, and the wallet reads 30
C13_Witness ==
    \E p \in Workers :
        /\ Finished(p, "wallet")
        /\ AssignedThenSubmitted(req[p].email)
        /\ "reward_cents" \notin DOMAIN
              TaskOf(hist[1].pre.verificationtask, hist[1].resp.task_id)
        /\ resp[p].wallet_balance_cents = 30

----------------------------------------------------------------------------
\* the timestamp an assignment wrote is later than every timestamp of the store it
\* started from
Fresh(e) ==
    \A i \in 1..Len(e.pre.verificationtask) :
        \/ NeverAssigned(e.pre.verificationtask[i])
        \/ e.pre.verificationtask[i]["last_assigned_at"] < e.at

\* the successful calls i..j are assignments with strictly increasing timestamps, no more
\* of them than tasks were pending before the first
FairRun(i, j) ==
    /\ \A k \in i..j : hist[k].req.op = "assign" /\ Fresh(hist[k])
    /\ j - i + 1 <= Cardinality(PendingIn(hist[i].pre.verificationtask))

\* C16: with n tasks pending and no submission in between, n consecutive non-interleaved
\* assign_task calls with strictly increasing timestamps return n distinct tasks.
C16_AssignFair ==
    \A i \in 1..Len(hist) : \A j \in (i + 1)..Len(hist) :
        FairRun(i, j) => hist[i].resp.task_id # hist[j].resp.task_id

\* three tasks were pending and three consecutive assignments have handed out all three
C16_Witness ==
    /\ Len(hist) = 3
    /\ FairRun(1, 3)
    /\ Cardinality(PendingIn(hist[1].pre.verificationtask)) = 3
    /\ Cardinality({hist[k].resp.task_id : k \in 1..3}) = 3

----------------------------------------------------------------------------
\* C14: assign_task reads the pending task and writes the assignment as two store
\* operations and the write is unconditional: whenever a call writes, the task it read
\* ends up assigned to that caller, whoever it was assigned to in between. Hence two
\* interleaved calls for two users can return the same task_id, and the task's
\* assigned_to then holds only the user whose write came last.
C14_LastWriteWins ==
    [][\A p \in Workers :
          (pc[p] = "assign_update" /\ pc'[p] = "assign_reread") =>
              \A i \in 1..Len(verificationtask') :
                  verificationtask'[i]["_id"] = loc[p].task["_id"] =>
                      verificationtask'[i]["assigned_to"] = OidStr(loc[p].user["_id"])]_vars

\* two calls for two different users have both returned the same task, which is assigned
\* to the second user only
C14_Witness ==
    \E p, q \in Workers :
        /\ Finished(p, "assign") /\ Finished(q, "assign")
        /\ resp[p].status = Ok /\ resp[q].status = Ok
        /\ req[p].user_email # req[q].user_email
        /\ loc[p].user["_id"] # loc[q].user["_id"]
        /\ resp[p].task_id = resp[q].task_id
        /\ TaskOf(verificationtask, resp[p].task_id)["assigned_to"] = OidStr(loc[q].user["_id"])

----------------------------------------------------------------------------
\* two submit_task requests by known users for the same existing task, with valid choices
TwoSubmits(b, r1, r2) ==
    /\ b.calls >= 0
    /\ calls = b.calls + 2
    /\ r1.op = "submit" /\ r2.op = "submit"
    /\ KnownIn(b.appuser, r1.user_email) /\ KnownIn(b.appuser, r2.user_email)
    /\ TaskNamed(b.verificationtask, r1.task_id) # {}
    /\ WellFormed(r2.task_id)
    /\ SameHex(r1.task_id, r2.task_id)
    /\ r1.choice \in {"active", "inactive", "unknown"}
    /\ r2.choice \in {"active", "inactive", "unknown"}

\* how many of the two requests are by the user at position i
SubmitsBy(b, r1, r2, i) ==
    (IF FirstUserIndex(b.appuser, r1.user_email) = i THEN 1 ELSE 0)
        + (IF FirstUserIndex(b.appuser, r2.user_email) = i THEN 1 ELSE 0)

\* both succeeded; since the store b there are two more TaskResults, both for the task,
\* one per request, and every wallet has grown by the reward once per request of its user
BothCredited(b, r1, s1, r2, s2) ==
    LET t == b.verificationtask[CHOOSE i \in TaskNamed(b.verificationtask, r1.task_id) : TRUE]
        r == ExpectedReward(t)
        n == Len(b.taskresult)
        uid(x) == OidStr(b.appuser[FirstUserIndex(b.appuser, x.user_email)]["_id"])
        made(k, x) == /\ taskresult[k].user_id = uid(x)
                      /\ taskresult[k].choice = x.choice
    IN  /\ s1.status = 200 /\ s2.status = 200
        /\ s1.reward_cents = r /\ s2.reward_cents = r
        /\ Len(taskresult) = n + 2
        /\ SubSeq(taskresult, 1, n) = b.taskresult
        /\ \A k \in {n + 1, n + 2} :
              /\ taskresult[k].task_id = OidStr(t["_id"])
              /\ taskresult[k].reward_cents = r
        /\ \/ made(n + 1, r1) /\ made(n + 2, r2)
           \/ made(n + 1, r2) /\ made(n + 2, r1)
        /\ Len(appuser) = Len(b.appuser)
        /\ \A i \in 1..Len(appuser) :
              Get(appuser[i], "wallet_balance_cents", 0) =
                  Get(b.appuser[i], "wallet_balance_cents", 0)
                      + r * SubmitsBy(b, r1, r2, i)
        /\ TaskOf(verificationtask, OidStr(t["_id"]))["status"] = "completed"

\* C15: there is no guard against resubmission: two submit_task calls for the same
\* existing task, interleaved or one after the other, by the same or by different known
\* users, both succeed, append two TaskResults for that task and credit the task's
\* reward_cents twice in total, 2 x reward_cents to the same user.
C15_Resubmission ==
    /\ \A p, q \in Workers :
          (p # q /\ Finished(p, "submit") /\ Finished(q, "submit")
                 /\ TwoSubmits(pre[p], req[p], req[q])) =>
              BothCredited(pre[p], req[p], resp[p], req[q], resp[q])
    /\ \A p \in Workers :
          (Finished(p, "submit") /\ hist # <<>>
                 /\ TwoSubmits(hist[Len(hist)].pre, hist[Len(hist)].req, req[p])) =>
              BothCredited(hist[Len(hist)].pre, hist[Len(hist)].req, hist[Len(hist)].resp,
                           req[p], resp[p])

\* two interleaved submissions of one task by two different users, one of them without
\* a wallet field, have both been credited
C15_Witness ==
    \E p, q \in Workers :
        /\ p # q /\ Finished(p, "submit") /\ Finished(q, "submit")
        /\ TwoSubmits(pre[p], req[p], req[q])
        /\ req[p].user_email # req[q].user_email
        /\ resp[p].status = Ok /\ resp[q].status = Ok
        /\ \E i \in 1..Len(appuser) :
              /\ "wallet_balance_cents" \notin DOMAIN pre[p].appuser[i]
              /\ appuser[i]["wallet_balance_cents"] > 0

\* one user has submitted the same task twice, one call after the other, and holds twice
\* the reward
C15_WitnessSequential ==
    \E p \in Workers :
        /\ Finished(p, "submit") /\ hist # <<>>
        /\ TwoSubmits(hist[Len(hist)].pre, hist[Len(hist)].req, req[p])
        /\ pre[p].calls = hist[Len(hist)].pre.calls + 1
        /\ req[p].user_email = hist[Len(hist)].req.user_email
        /\ resp[p].status = Ok

----------------------------------------------------------------------------
\* C17: a successful assign_task that runs without interleaving changes only the
\* assigned_to and last_assigned_at fields of the one task it returns; every other task,
\* every task's status and reward_cents (and title), every existing user and the whole
\* taskresult collection are unchanged.
C17_AssignFrame ==
    \A p \in Workers :
        (Finished(p, "assign") /\ resp[p].status = 200) =>
            LET before == pre[p].verificationtask IN
            /\ Cardinality(Returned(p)) = 1
            /\ Len(verificationtask) = Len(before)
            /\ \A i \in 1..Len(before) :
                  IF i \in Returned(p)
                  THEN /\ DOMAIN verificationtask[i] =
                              DOMAIN before[i] \cup {"assigned_to", "last_assigned_at"}
                       /\ \A f \in DOMAIN before[i] \ {"assigned_to", "last_assigned_at"} :
                              verificationtask[i][f] = before[i][f]
                  ELSE verificationtask[i] = before[i]
            /\ Len(appuser) >= Len(pre[p].appuser)
            /\ SubSeq(appuser, 1, Len(pre[p].appuser)) = pre[p].appuser
            /\ taskresult = pre[p].taskresult

\* a task assigned to another user before has been handed to a user the call created,
\* on a store that holds TaskResults
C17_Witness ==
    \E p \in Workers :
        /\ Finished(p, "assign") /\ resp[p].status = Ok
        /\ Len(appuser) > Len(pre[p].appuser)
        /\ taskresult # <<>>
        /\ \E i \in Returned(p) :
              /\ ~NeverAssigned(pre[p].verificationtask[i])
              /\ verificationtask[i]["assigned_to"] # pre[p].verificationtask[i]["assigned_to"]

----------------------------------------------------------------------------
\* the sum of reward_cents over the first n TaskResults that carry the user id uid
RECURSIVE Earned(_, _)
Earned(uid, n) ==
    IF n = 0 THEN 0
    ELSE Earned(uid, n - 1)
            + (IF taskresult[n].user_id = uid THEN taskresult[n].reward_cents ELSE 0)

SubmitInProgress == \E p \in Workers : req[p].op = "submit" /\ pc[p] \notin {"idle", "done"}

Wallet(u) == Get(u, "wallet_balance_cents", 0)

\* every wallet is at most what its user's TaskResults add up to, and equal to it when no
\* submit_task is in progress
WalletsBalanced ==
    \A i \in 1..Len(appuser) :
        LET earned == Earned(OidStr(appuser[i]["_id"]), Len(taskresult)) IN
        /\ Wallet(appuser[i]) <= earned
        /\ ~SubmitInProgress => Wallet(appuser[i]) = earned

\* no step lowers a wallet or removes a user
WalletsGrow ==
    /\ Len(appuser') >= Len(appuser)
    /\ \A i \in 1..Len(appuser) : Wallet(appuser'[i]) >= Wallet(appuser[i])

\* C18: under any interleaving of the four operations, in every reachable state each
\* user's wallet_balance_cents is at most the sum of reward_cents over the TaskResults
\* carrying that user's id, the two are equal whenever no submit_task is in progress, and
\* no step decreases a wallet.
C18_WalletAccounting == []WalletsBalanced /\ [][WalletsGrow]_vars

\* two interleaved submissions by one user have both been credited, and the wallet
\* equals the sum of that user's rewards
C18_Witness ==
    \E p, q \in Workers :
        /\ p # q /\ Finished(p, "submit") /\ Finished(q, "submit")
        /\ resp[p].status = Ok /\ resp[q].status = Ok
        /\ loc[p].user["_id"] = loc[q].user["_id"]
        /\ \E i \in 1..Len(appuser) :
              /\ appuser[i]["_id"] = loc[p].user["_id"]
              /\ Wallet(appuser[i]) = Earned(OidStr(appuser[i]["_id"]), Len(taskresult))
              /\ Wallet(appuser[i]) >= resp[p].reward_cents + resp[q].reward_cents
              /\ resp[p].reward_cents > 0

----------------------------------------------------------------------------
\* C19: in every reachable state, under any interleaving of assign_task and seed_data
\* calls, the appuser collection holds at most one AppUser per email.
C19_EmailUnique ==
    \A i, j \in 1..Len(appuser) :
        appuser[i]["email"] = appuser[j]["email"] => i = j

----------------------------------------------------------------------------
\* the step is worker p writing status completed on task t
Completes(p, t) ==
    /\ pc[p] = "submit_update_task" /\ pc'[p] = "submit_credit"
    /\ loc[p].task["_id"] = t["_id"]

\* the step is worker p inserting a sample task for a seed_data that found no task
Seeds(p) ==
    /\ pc[p] = "seed_create_task"
    /\ loc'[p].i # loc[p].i \/ pc'[p] = "done"
    /\ pre[p].calls >= 0 => pre[p].verificationtask = <<>>

\* C20: task status is monotone: the only status change a step makes is submit_task
\* setting a task to completed, from any status; no step sets a status to pending or
\* disabled, so a completed task stays completed; the set of pending tasks grows only by
\* the inserts of a seed_data that found the collection empty; no TaskResult and no task
\* is deleted or replaced: a task keeps its _id, title and reward_cents, a TaskResult
\* everything.
C20_StatusMonotone ==
    [][/\ Len(taskresult') >= Len(taskresult)
       /\ SubSeq(taskresult', 1, Len(taskresult)) = taskresult
       /\ Len(verificationtask') >= Len(verificationtask)
       /\ \A i \in 1..Len(verificationtask) :
             LET t == verificationtask[i]
                 u == verificationtask'[i]
             IN  /\ u["_id"] = t["_id"] /\ u["title"] = t["title"]
                 /\ ("reward_cents" \in DOMAIN u) = ("reward_cents" \in DOMAIN t)
                 /\ ExpectedReward(u) = ExpectedReward(t)
                 /\ u["status"] # t["status"] =>
                       u["status"] = "completed" /\ \E p \in Workers : Completes(p, t)
                 /\ t["status"] = "completed" => u["status"] = "completed"
       /\ PendingIn(verificationtask') \subseteq PendingIn(verificationtask)
             \/ \E p \in Workers : Seeds(p)]_vars

\* a disabled task has been completed by a submission
C20_Witness ==
    \E p \in Workers :
        /\ Finished(p, "submit") /\ resp[p].status = Ok
        /\ loc[p].task["status"] = "disabled"
        /\ TaskById(loc[p].task["_id"])["status"] = "completed"

=============================================================================
